---- MODULE Spec2Model ----
(***************************************************************************)
(* Model of src/heap.cpp: the array-backed min-heap Heap<T> with a         *)
(* configurable offset, its constructors, Top(), set_offset() and the      *)
(* stack-driven heapify().  One iteration of heapify's while loop is one   *)
(* step of the model.                                                      *)
(***************************************************************************)
EXTENDS Integers, Sequences, FiniteSets

\* ---- bounds of the model -------------------------------------------------
MaxLen == 6
MaxOffset == 2
MaxVal == 1
\* Number of indices index_stack can hold before its allocation fails.
MaxStack == 8

\* Values of the element type T that the model enumerates.  0 is also the
\* value make_unique<T[]> gives every slot (value-initialisation).
Values == 0..MaxVal
Offsets == 0..MaxOffset

RECURSIVE SeqsUpTo(_)
SeqsUpTo(n) == IF n = 0 THEN {<<>>}
               ELSE SeqsUpTo(n - 1) \cup [1..n -> Values]
Inputs == SeqsUpTo(MaxLen)

VARIABLES
  heap_,        \* the buffer: a function from 0..cap-1 to values
  size_,        \* number of live elements
  offset_,      \* first index of the live region
  cap,          \* number of elements allocated for heap_
  index_stack,  \* heapify's work stack; the top is the last element
  pc,           \* "new", "heapify" (inside the while loop), "ready", or
                \* "bad_alloc" (a push on index_stack ran out of memory)
  v,            \* the vector the heap was constructed from
  op,           \* the operation heapify is running for / last ran for
  descLog,      \* indices popped in the descending pass of this run
  swaps,        \* swaps performed by the last loop iteration
  touched,      \* buffer indices read or written by the last iteration
  swapped,      \* some swap was performed in this run of heapify
  validAtStart  \* the live region was a min-heap when this run began

vars == <<heap_, size_, offset_, cap, index_stack, pc, v, op,
          descLog, swaps, touched, swapped, validAtStart>>

\* ---- pure helpers ---------------------------------------------------------
\* Variant of lchild_index that yields the right child's index.
lchild_indexRight(idx) == idx * 2 + 2
lchild_index(idx) == idx * 2 + 1
rchild_index(idx) == idx * 2 + 2

\* Variant of swap_idx without the temporary: idx2 keeps its value.
swap_idxNoTmp(h, idx1, idx2) ==
  [h EXCEPT ![idx1] = h[idx2]]
swap_idx(h, idx1, idx2) ==
  [h EXCEPT ![idx1] = h[idx2], ![idx2] = h[idx1]]

\* heap_[i]: the stored value when i is inside the allocation, otherwise an
\* out-of-bounds read whose result is any value.
Read(h, i) == IF i \in DOMAIN h THEN {h[i]} ELSE Values

\* (offset_ + size_) / 2, the index heapify seeds its stack with.
Seed(offset, size) == (offset + size) \div 2

\* The live region [offset, offset+size).
Live(offset, size) == offset..(offset + size - 1)

\* Children of live index i, relative to the offset.
RelChildren(i, offset) ==
  {2 * (i - offset) + 1 + offset, 2 * (i - offset) + 2 + offset}

\* The min-heap invariant over the live region of buffer h.
HeapValid(h, offset, size) ==
  \A i \in Live(offset, size) :
    \A c \in RelChildren(i, offset) \cap Live(offset, size) :
      (i \in DOMAIN h /\ c \in DOMAIN h) => h[i] <= h[c]

InBuffer(offset, size, n) == offset + size <= n

Top == heap_[offset_]
Size == size_

SeqMin(s) == CHOOSE x \in {s[i] : i \in 1..Len(s)} :
               \A j \in 1..Len(s) : x <= s[j]

CountIn(h, idxs, x) == Cardinality({i \in idxs : h[i] = x})

\* ---- the program ----------------------------------------------------------
Init ==
  /\ heap_ = <<>>
  /\ size_ = 0
  /\ offset_ = 0
  /\ cap = 0
  /\ index_stack = <<>>
  /\ pc = "new"
  /\ v = <<>>
  /\ op = "none"
  /\ descLog = <<>>
  /\ swaps = {}
  /\ touched = {}
  /\ swapped = FALSE
  /\ validAtStart = FALSE

\* Entry of heapify(): the stack holds the seed, nothing has been done yet.
EnterHeapify(h, offset, size, n) ==
  /\ index_stack' = <<Seed(offset, size)>>
  /\ pc' = "heapify"
  /\ descLog' = <<>>
  /\ swaps' = {}
  /\ touched' = {}
  /\ swapped' = FALSE
  /\ validAtStart' = (InBuffer(offset, size, n) /\ HeapValid(h, offset, size))

\* Heap(const std::vector<T>& v)
HeapFromVector ==
  /\ pc = "new"
  /\ \E s \in Inputs :
       LET h == [i \in 0..(Len(s) - 1) |-> s[i + 1]] IN
       /\ heap_' = h
       /\ size_' = Len(s)
       /\ offset_' = 0
       /\ cap' = Len(s)
       /\ v' = s
       /\ op' = "Heap(v)"
       /\ EnterHeapify(h, 0, Len(s), Len(s))

\* Heap(const std::vector<T>& v, std::size_t offset)
HeapFromVectorOffset ==
  /\ pc = "new"
  /\ \E s \in Inputs, offset \in Offsets :
       LET h == [i \in 0..(Len(s) + offset - 1) |->
                   IF i < offset THEN 0 ELSE s[i - offset + 1]] IN
       /\ heap_' = h
       /\ size_' = Len(s)
       /\ offset_' = offset
       /\ cap' = Len(s) + offset
       /\ v' = s
       /\ op' = "Heap(v,offset)"
       /\ EnterHeapify(h, offset, Len(s), Len(s) + offset)

\* set_offset(offset): reassign offset_ and re-run heapify on the same buffer.
set_offset ==
  /\ pc = "ready"
  /\ \E offset \in Offsets :
       /\ offset_' = offset
       /\ op' = "set_offset"
       /\ EnterHeapify(heap_, offset, size_, cap)
  /\ UNCHANGED <<heap_, size_, cap, v>>

\* One iteration of the while loop of heapify().
HeapifyStep ==
  /\ pc = "heapify"
  /\ index_stack # <<>>
  /\ LET parent_idx == index_stack[Len(index_stack)]
         s1 == SubSeq(index_stack, 1, Len(index_stack) - 1)
         s2 == IF parent_idx > offset_ THEN Append(s1, parent_idx - 1) ELSE s1
         li == lchild_index(parent_idx)
         ri == rchild_index(parent_idx)
         isDesc == /\ Len(index_stack) = 1
                   /\ \/ descLog = <<>>
                      \/ descLog[Len(descLog)] > offset_
     IN
     \E lchild \in Read(heap_, li), rchild \in Read(heap_, ri) :
       LET lin == li < size_
           cmpL == IF lin THEN Read(heap_, offset_ + parent_idx) ELSE {0}
       IN
       \E pl \in cmpL :
         LET doL == lin /\ lchild < pl
             h1 == IF doL THEN swap_idx(heap_, li, parent_idx) ELSE heap_
             s3 == IF doL THEN Append(s2, li) ELSE s2
             rin == ri < size_
             cmpR == IF rin THEN Read(h1, parent_idx) ELSE {0}
         IN
         \E pr \in cmpR :
           LET doR == rin /\ rchild < pr
               h2 == IF doR THEN swap_idx(h1, ri, parent_idx) ELSE h1
               s4 == IF doR THEN Append(s3, ri) ELSE s3
               swL == IF doL
                      THEN {[p |-> parent_idx, c |-> li,
                             vp |-> heap_[parent_idx], vc |-> heap_[li]]}
                      ELSE {}
               swR == IF doR
                      THEN {[p |-> parent_idx, c |-> ri,
                             vp |-> h1[parent_idx], vc |-> h1[ri]]}
                      ELSE {}
           IN
           /\ heap_' = h2
           /\ index_stack' = s4
           /\ pc' = IF s4 = <<>> THEN "ready"
                    ELSE IF Len(s4) > MaxStack THEN "bad_alloc"
                    ELSE "heapify"
           /\ descLog' = IF isDesc THEN Append(descLog, parent_idx) ELSE descLog
           /\ swaps' = swL \cup swR
           /\ touched' = {li, ri}
                           \cup (IF lin THEN {offset_ + parent_idx} ELSE {})
                           \cup (IF rin THEN {parent_idx} ELSE {})
                           \cup (IF doL \/ doR THEN {parent_idx} ELSE {})
           /\ swapped' = (swapped \/ doL \/ doR)
  /\ UNCHANGED <<size_, offset_, cap, v, op, validAtStart>>

Next ==
  \/ HeapFromVector
  \/ HeapFromVectorOffset
  \/ set_offset
  \/ HeapifyStep

Spec == Init /\ [][Next]_vars

\* heapify's loop keeps running while its stack is not empty.
FairSpec == Spec /\ WF_vars(HeapifyStep)

\* ---- properties -----------------------------------------------------------
Ctors == {"Heap(v)", "Heap(v,offset)"}

\* C1: after Heap(S, k) returns, every live index holds a value <= the value
\* of each of its offset-relative children that lies in the live region.
C1_HeapPropertyAfterConstruct ==
  (pc = "ready" /\ op = "Heap(v,offset)") => HeapValid(heap_, offset_, size_)

\* C2: for a non-empty S, Top() right after construction from (S, k) is the
\* minimum value of S.
C2_TopIsMinimum ==
  (pc = "ready" /\ op \in Ctors /\ size_ > 0) => Top = SeqMin(v)

\* C3: heapify terminates: once it has been entered, its work stack
\* eventually becomes empty and the call returns.  Running into the bound on
\* the stack's memory is counted as leaving the loop, so only a run that
\* iterates forever within bounded memory violates the property.
C3_HeapifyTerminates == (pc = "heapify") ~> (pc \in {"ready", "bad_alloc"})

\* C4: during and after construction from (S, k) the live region holds
\* exactly the multiset of values of S, and every swap exchanges two slots of
\* the live region (never a padding slot).
C4_MultisetPreserved ==
  (op \in Ctors) =>
    /\ \A x \in Values :
         CountIn(heap_, Live(offset_, size_), x) = CountIn(v, 1..Len(v), x)
    /\ \A s \in swaps : s.p \in Live(offset_, size_) /\ s.c \in Live(offset_, size_)

C4_Witness ==
  /\ pc = "ready" /\ op = "Heap(v,offset)"
  /\ offset_ > 0 /\ size_ >= 4 /\ swapped

\* C5: the one-argument constructor Heap(S) yields a min-heap over the whole
\* buffer: storage[i] <= storage[2i+1] and storage[i] <= storage[2i+2]
\* whenever the child index is below |S|.
C5_HeapFromVectorIsMinHeap ==
  (pc = "ready" /\ op = "Heap(v)") =>
    /\ cap = Len(v) /\ size_ = Len(v) /\ offset_ = 0
    /\ \A i \in 0..(size_ - 1) :
         /\ (2 * i + 1 < size_) => heap_[i] <= heap_[2 * i + 1]
         /\ (2 * i + 2 < size_) => heap_[i] <= heap_[2 * i + 2]

C5_Witness ==
  /\ pc = "ready" /\ op = "Heap(v)"
  /\ size_ = MaxLen /\ swapped
  /\ \E i \in 1..(Len(v) - 1) : v[i] > v[i + 1]

\* C6: after a set_offset(newOffset) call returns, the min-heap invariant
\* holds over [newOffset, newOffset+count) of the same buffer, in particular
\* whenever that window lies inside the allocated buffer.
C6_HeapPropertyAfterSetOffset ==
  (pc = "ready" /\ op = "set_offset" /\ InBuffer(offset_, size_, cap)) =>
    HeapValid(heap_, offset_, size_)

\* C7: heapify is idempotent: a run that starts on a buffer whose live region
\* already is a min-heap performs no swap.
C7_HeapifyIdempotent == validAtStart => ~swapped

\* C8: in one run of heapify the descending pass pops every index of the live
\* region exactly once, from the highest live index down to offset.
C8_DescendingPassCoversLiveRegion ==
  (pc = "ready") =>
    /\ \A i \in Live(offset_, size_) :
         Cardinality({j \in DOMAIN descLog : descLog[j] = i}) = 1
    /\ \A j, k \in DOMAIN descLog : j < k => descLog[j] > descLog[k]

\* C9: every swap exchanges a live index p with one of its offset-relative
\* children that lies in the live region and holds a strictly smaller value.
C9_SwapsOnlySmallerChild ==
  \A s \in swaps :
    /\ s.p \in Live(offset_, size_)
    /\ s.c \in RelChildren(s.p, offset_) \cap Live(offset_, size_)
    /\ s.vc < s.vp

\* C10: during construction every buffer index heapify reads or writes lies
\* inside the allocated buffer [0, k+|S|).
C10_AccessesInsideBuffer ==
  (op \in Ctors) => touched \subseteq 0..(cap - 1)

====
